---- MODULE Spec2Model ----
(***************************************************************************)
(* Model of src/js/jobs.js: the job-board filter widget.                   *)
(*                                                                         *)
(* The page state is the two module-level bindings (activeFilters, jobs),  *)
(* the three DOM properties the script writes (#job-listings innerHTML,    *)
(* #filter-tags innerHTML, #filter-bar style.display) and the position of  *)
(* the async function fetchJobs.  Every event handler runs to completion   *)
(* on the single-threaded event loop, so each handler is one action.       *)
(*                                                                         *)
(* Tag values are opaque tokens without HTML-special characters; the       *)
(* markup of a card or chip is modelled by the values interpolated into    *)
(* the template, in template order.                                        *)
(***************************************************************************)
EXTENDS Integers, Sequences, FiniteSets

\* ------------------------------------------------------------------ bounds
\* Longest JSON array the data source may return.
MaxJobs == 3

\* ------------------------------------------------------------- JS values
\* The JavaScript value undefined (what reading an absent property yields).
Undefined == "#undefined"

\* Template-literal interpolation `${v}`: String(v).
Interpolate(v) == IF v = Undefined THEN "undefined" ELSE v

Range(s) == {s[i] : i \in 1..Len(s)}

\* Tag values a click target may carry in data-tag / data-filter.
Tags == {"Frontend", "Senior", "CSS"}

\* --------------------------------------------------------------- payloads
\* A parsed element of the JSON array.  `missing` lists the properties the
\* object does not have; reading one of them yields undefined.
MkJob(company, new, featured, role, level, languages, tools, missing) ==
    [company |-> company, new |-> new, featured |-> featured,
     role |-> role, level |-> level,
     languages |-> languages, tools |-> tools, missing |-> missing]

Job1 == MkJob("Photosnap", TRUE, TRUE, "Frontend", "Junior", <<"HTML", "CSS">>, <<>>, {})
Job2 == MkJob("Manage", FALSE, FALSE, "Backend", "Senior", <<"Python">>, <<"Django">>, {})
Job3 == MkJob("Account", TRUE, FALSE, "Frontend", "Senior", <<"CSS">>, <<"CSS">>, {})
JobNoRole == MkJob("NoRole", FALSE, FALSE, Undefined, "Senior", <<"CSS">>, <<>>, {"role"})
JobNoLanguages == MkJob("NoLanguages", FALSE, FALSE, "Frontend", "Junior", <<>>, <<"CSS">>, {"languages"})

WellFormedJobs == {Job1, Job2, Job3}
Jobs == WellFormedJobs \cup {JobNoRole, JobNoLanguages}

\* Sequences of pairwise distinct elements of S, of length at most n.
DistinctSeqsUpTo(S, n) ==
    UNION {{f \in [1..k -> S] : \A i, j \in 1..k : i # j => f[i] # f[j]} : k \in 0..n}

\* A JavaScript value held by the binding `jobs`: an array of items, or a
\* value that is not an array (object, null, number, string).
ArrayOf(items) == [isArray |-> TRUE, items |-> items]
NotAnArray == [isArray |-> FALSE, items |-> <<>>]

JsonValues == {ArrayOf(items) : items \in DistinctSeqsUpTo(Jobs, MaxJobs)} \cup {NotAnArray}

\* The body of an HTTP response: text that parses as JSON to `value`, or
\* text that is not JSON.
JsonBody(value) == [valid |-> TRUE, value |-> value]
InvalidBody == [valid |-> FALSE, value |-> NotAnArray]

\* What `await fetch('/data.json')` settles to: a rejection (network error)
\* or a Response with its ok flag and body.
NoResponse == [settled |-> FALSE, rejected |-> FALSE, ok |-> FALSE, body |-> InvalidBody]
NetworkError == [settled |-> TRUE, rejected |-> TRUE, ok |-> FALSE, body |-> InvalidBody]
HttpResponse(ok, body) == [settled |-> TRUE, rejected |-> FALSE, ok |-> ok, body |-> body]

Responses ==
    {NetworkError}
    \cup {HttpResponse(FALSE, InvalidBody), HttpResponse(FALSE, JsonBody(ArrayOf(<<Job1>>)))}
    \cup {HttpResponse(TRUE, InvalidBody)}
    \cup {HttpResponse(TRUE, JsonBody(v)) : v \in JsonValues}

\* ------------------------------------------------------------------ state
VARIABLES
    activeFilters,    \* the Set activeFilters, in insertion order
    jobs,             \* the binding jobs
    jobListingsHTML,  \* #job-listings innerHTML: sequence of job cards
    filterTagsHTML,   \* #filter-tags innerHTML: sequence of filter chips
    filterBarDisplay, \* #filter-bar display: "none" or "block"
    pc,               \* position of fetchJobs
    response,         \* what fetch settled to
    consoleErrors,    \* number of console.error calls
    outcome,          \* how the most recent handler ended
    event             \* the most recent event and whether its tag was active

vars == <<activeFilters, jobs, jobListingsHTML, filterTagsHTML,
          filterBarDisplay, pc, response, consoleErrors, outcome, event>>

\* The page as a record, so that the script's functions are operators on it.
\* `threw` is set when a call raised an exception that is still propagating.
Page == [activeFilters |-> activeFilters, jobs |-> jobs,
         jobListingsHTML |-> jobListingsHTML, filterTagsHTML |-> filterTagsHTML,
         filterBarDisplay |-> filterBarDisplay, threw |-> FALSE]

\* --------------------------------------------------------- Set operations
\* Variant: re-adding a value moves it to the end.
SetAdd_moveToEnd(S, x) == Append(SelectSeq(S, LAMBDA y : y # x), x)

SetAdd(S, x) == IF x \in Range(S) THEN S ELSE Append(S, x)
\* Variant: splice(indexOf(x), 1), which drops the last element when x is absent.
SetDelete_splice(S, x) ==
    IF x \in Range(S) THEN SelectSeq(S, LAMBDA y : y # x) ELSE SubSeq(S, 1, Len(S) - 1)

SetDelete(S, x) == SelectSeq(S, LAMBDA y : y # x)

\* ------------------------------------------------------------- the script
\* Reading a property of a parsed item.
Prop(job, name) ==
    IF name \in job.missing THEN Undefined
    ELSE CASE name = "role" -> job.role
           [] name = "level" -> job.level

\* `...job.languages` / `...job.tools` raises TypeError when the property is
\* undefined (undefined is not iterable).
SpreadThrows(job) == "languages" \in job.missing \/ "tools" \in job.missing

\* [job.role, job.level, ...job.languages, ...job.tools]
TagArray(job) == <<Prop(job, "role"), Prop(job, "level")>> \o job.languages \o job.tools

\* One <span class="badge tag filter-tag" data-tag="${tag}">${tag}</span>
TagSpan(tag) == [classList |-> {"badge", "tag", "filter-tag"},
                 tag |-> Interpolate(tag), text |-> Interpolate(tag)]

createJobCard(job) ==
    LET tags == TagArray(job)
        tagsHtml == [i \in 1..Len(tags) |-> TagSpan(tags[i])]
    IN [company |-> job.company, new |-> job.new, featured |-> job.featured,
        tools |-> tagsHtml, bottom |-> tagsHtml]

\* Variant: `some` in place of `every`.
renderJobs_some(s) ==
    LET items == s.jobs.items
        n == Len(s.activeFilters)
        jobTags(job) == Range(TagArray(job))
        keep(job) == n = 0 \/ \E k \in 1..n : s.activeFilters[k] \in jobTags(job)
        filterThrows == n > 0 /\ \E i \in 1..Len(items) : SpreadThrows(items[i])
        filteredJobs == SelectSeq(items, keep)
        mapThrows == \E i \in 1..Len(filteredJobs) : SpreadThrows(filteredJobs[i])
    IN IF ~s.jobs.isArray \/ filterThrows \/ mapThrows
       THEN [s EXCEPT !.threw = TRUE]
       ELSE [s EXCEPT !.jobListingsHTML =
                [i \in 1..Len(filteredJobs) |-> createJobCard(filteredJobs[i])]]

\* Variant: each card is prepended to the region instead of appended.
renderJobs_prepend(s) ==
    LET items == s.jobs.items
        n == Len(s.activeFilters)
        jobTags(job) == Range(TagArray(job))
        keep(job) == n = 0 \/ \A k \in 1..n : s.activeFilters[k] \in jobTags(job)
        filterThrows == n > 0 /\ \E i \in 1..Len(items) : SpreadThrows(items[i])
        filteredJobs == SelectSeq(items, keep)
        mapThrows == \E i \in 1..Len(filteredJobs) : SpreadThrows(filteredJobs[i])
        m == Len(filteredJobs)
    IN IF ~s.jobs.isArray \/ filterThrows \/ mapThrows
       THEN [s EXCEPT !.threw = TRUE]
       ELSE [s EXCEPT !.jobListingsHTML =
                [i \in 1..m |-> createJobCard(filteredJobs[m + 1 - i])]]

renderJobs(s) ==
    LET items == s.jobs.items
        n == Len(s.activeFilters)
        jobTags(job) == Range(TagArray(job))
        keep(job) == n = 0 \/ \A k \in 1..n : s.activeFilters[k] \in jobTags(job)
        filterThrows == n > 0 /\ \E i \in 1..Len(items) : SpreadThrows(items[i])
        filteredJobs == SelectSeq(items, keep)
        mapThrows == \E i \in 1..Len(filteredJobs) : SpreadThrows(filteredJobs[i])
    IN IF ~s.jobs.isArray \/ filterThrows \/ mapThrows
       THEN [s EXCEPT !.threw = TRUE]
       ELSE [s EXCEPT !.jobListingsHTML =
                [i \in 1..Len(filteredJobs) |-> createJobCard(filteredJobs[i])]]

\* One chip: the filter text and a close button carrying data-filter.
FilterChip(filter) == [text |-> filter,
                       classList |-> {"btn-close", "close", "btn-close-white"},
                       filter |-> filter]

\* Variant: the else branch is missing, so the bar is never hidden.
updateFilterBar_noHide(s) ==
    IF Len(s.activeFilters) > 0
    THEN [s EXCEPT !.filterBarDisplay = "block",
                   !.filterTagsHTML = [i \in 1..Len(s.activeFilters) |->
                                          FilterChip(s.activeFilters[i])]]
    ELSE s

\* Variant: innerHTML += in place of innerHTML =.
updateFilterBar_appends(s) ==
    IF Len(s.activeFilters) > 0
    THEN [s EXCEPT !.filterBarDisplay = "block",
                   !.filterTagsHTML = @ \o [i \in 1..Len(s.activeFilters) |->
                                              FilterChip(s.activeFilters[i])]]
    ELSE [s EXCEPT !.filterBarDisplay = "none"]

updateFilterBar(s) ==
    IF Len(s.activeFilters) > 0
    THEN [s EXCEPT !.filterBarDisplay = "block",
                   !.filterTagsHTML = [i \in 1..Len(s.activeFilters) |->
                                          FilterChip(s.activeFilters[i])]]
    ELSE [s EXCEPT !.filterBarDisplay = "none"]

addFilter(s, filter) ==
    renderJobs(updateFilterBar([s EXCEPT !.activeFilters = SetAdd(@, filter)]))

\* Variant: the renderJobs() call is missing.
removeFilter_noRender(s, filter) ==
    updateFilterBar([s EXCEPT !.activeFilters = SetDelete(@, filter)])

removeFilter(s, filter) ==
    renderJobs(updateFilterBar([s EXCEPT !.activeFilters = SetDelete(@, filter)]))

\* Variant: clear-all also empties the job array.
clearFilters_resetsJobs(s) ==
    renderJobs(updateFilterBar([s EXCEPT !.activeFilters = <<>>, !.jobs = ArrayOf(<<>>)]))

\* Listener on #clear-filters.
clearFilters(s) ==
    renderJobs(updateFilterBar([s EXCEPT !.activeFilters = <<>>]))

\* Listener on document; a raised exception skips the rest of the listener.
\* Variant: a click on the tag chip of an active filter removes the filter.
documentClick_toggle(s, target) ==
    LET s1 == IF "filter-tag" \in target.classList
              THEN IF target.tag \in Range(s.activeFilters)
                   THEN removeFilter(s, target.tag)
                   ELSE addFilter(s, target.tag)
              ELSE s
    IN IF s1.threw THEN s1
       ELSE IF "btn-close" \in target.classList THEN removeFilter(s1, target.filter) ELSE s1

documentClick(s, target) ==
    LET s1 == IF "filter-tag" \in target.classList THEN addFilter(s, target.tag) ELSE s
    IN IF s1.threw THEN s1
       ELSE IF "btn-close" \in target.classList THEN removeFilter(s1, target.filter) ELSE s1

\* Variant: the response.ok test is missing.
failsBeforeJson_noStatus(r) == r.rejected

\* The part of fetchJobs up to and including `if (!response.ok) throw`:
\* whether control reaches the catch block before response.json() is called.
failsBeforeJson(r) == r.rejected \/ ~r.ok

\* The part of fetchJobs after `await response.json()` resolved with `value`.
storeAndRender(s, value) == renderJobs([s EXCEPT !.jobs = value])

\* ------------------------------------------------------------ click targets
TagTarget(t) == [id |-> "", classList |-> {"badge", "tag", "filter-tag"}, tag |-> t, filter |-> Undefined]
CloseTarget(t) == [id |-> "", classList |-> {"btn-close", "close", "btn-close-white"}, tag |-> Undefined, filter |-> t]
ClearTarget == [id |-> "clear-filters", classList |-> {}, tag |-> Undefined, filter |-> Undefined]
OtherTarget == [id |-> "", classList |-> {}, tag |-> Undefined, filter |-> Undefined]

TargetKind(target) ==
    IF target.id = "clear-filters" THEN "clear"
    ELSE IF "filter-tag" \in target.classList THEN "tag"
    ELSE IF "btn-close" \in target.classList THEN "close"
    ELSE "other"

TargetValue(target) ==
    IF "filter-tag" \in target.classList THEN target.tag
    ELSE IF "btn-close" \in target.classList THEN target.filter
    ELSE Undefined

\* Dispatch of one click: the target's own listener, then the document's.
\* An exception in one listener is reported and does not stop the other.
dispatchClick(s, target) ==
    LET s1 == IF target.id = "clear-filters" THEN clearFilters(s) ELSE s
        s2 == documentClick([s1 EXCEPT !.threw = FALSE], target)
    IN [s2 EXCEPT !.threw = s1.threw \/ s2.threw]

\* Whether a dispatch ran renderJobs at all.
RunsRender(target) ==
    target.id = "clear-filters" \/ "filter-tag" \in target.classList
                                \/ "btn-close" \in target.classList

Install(s) ==
    /\ activeFilters' = s.activeFilters
    /\ jobs' = s.jobs
    /\ jobListingsHTML' = s.jobListingsHTML
    /\ filterTagsHTML' = s.filterTagsHTML
    /\ filterBarDisplay' = s.filterBarDisplay

\* The event being handled: its type and whether the tag value its target
\* carries was in activeFilters when the event arrived.
Event(type, active) == [type |-> type, active |-> active]
NoEvent == Event("none", FALSE)

\* The three regions as the page's markup delivers them: the job list and
\* the filter bar start empty, the bar hidden as for an empty filter set.
InitialMarkup == [jobListingsHTML |-> <<>>, filterTagsHTML |-> <<>>,
                  filterBarDisplay |-> "none"]

\* ---------------------------------------------------------------- actions
Init ==
    /\ activeFilters = <<>>
    /\ jobs = ArrayOf(<<>>)
    /\ jobListingsHTML = InitialMarkup.jobListingsHTML
    /\ filterTagsHTML = InitialMarkup.filterTagsHTML
    /\ filterBarDisplay = InitialMarkup.filterBarDisplay
    /\ pc = "start"
    /\ response = NoResponse
    /\ consoleErrors = 0
    /\ outcome = "idle"
    /\ event = NoEvent

\* DOMContentLoaded: fetchJobs runs up to `await fetch(...)`.
DOMContentLoaded ==
    /\ pc = "start"
    /\ pc' = "awaitFetch"
    /\ UNCHANGED <<activeFilters, jobs, jobListingsHTML, filterTagsHTML,
                   filterBarDisplay, response, consoleErrors, outcome>>
    /\ event' = Event("DOMContentLoaded", FALSE)

\* fetch settles: rejection or !response.ok goes to the catch block,
\* otherwise fetchJobs runs up to `await response.json()`.
FetchSettles ==
    /\ pc = "awaitFetch"
    /\ \E r \in Responses :
        /\ response' = r
        /\ IF failsBeforeJson(r)
           THEN /\ pc' = "done"
                /\ consoleErrors' = consoleErrors + 1
                /\ outcome' = "caught"
           ELSE /\ pc' = "awaitJson"
                /\ UNCHANGED <<consoleErrors, outcome>>
    /\ event' = Event("fetch", FALSE)
    /\ UNCHANGED <<activeFilters, jobs, jobListingsHTML, filterTagsHTML, filterBarDisplay>>

\* response.json() settles: a rejection goes to the catch block, otherwise
\* jobs is assigned and renderJobs runs inside the try.
JsonSettles ==
    /\ pc = "awaitJson"
    /\ pc' = "done"
    /\ IF ~response.body.valid
       THEN /\ consoleErrors' = consoleErrors + 1
            /\ outcome' = "caught"
            /\ UNCHANGED <<activeFilters, jobs, jobListingsHTML, filterTagsHTML, filterBarDisplay>>
       ELSE LET s == storeAndRender(Page, response.body.value)
            IN /\ Install(s)
               /\ consoleErrors' = IF s.threw THEN consoleErrors + 1 ELSE consoleErrors
               /\ outcome' = IF s.threw THEN "caught" ELSE "rendered"
    /\ event' = Event("json", FALSE)
    /\ UNCHANGED response

Click(target) ==
    LET s == dispatchClick(Page, target)
    IN /\ Install(s)
       /\ outcome' = IF s.threw THEN "uncaught"
                     ELSE IF RunsRender(target) THEN "rendered" ELSE "idle"
       /\ event' = Event(TargetKind(target),
                          TargetValue(target) \in Range(activeFilters))
       /\ UNCHANGED <<pc, response, consoleErrors>>

TagClick == \E t \in Tags : Click(TagTarget(t))
CloseClick == \E t \in Tags : Click(CloseTarget(t))
ClearClick == Click(ClearTarget)
OtherClick == Click(OtherTarget)

Next ==
    \/ DOMContentLoaded
    \/ FetchSettles
    \/ JsonSettles
    \/ TagClick
    \/ CloseClick
    \/ ClearClick
    \/ OtherClick

Spec == Init /\ [][Next]_vars

TypeOK ==
    /\ Range(activeFilters) \subseteq Tags
    /\ filterBarDisplay \in {"none", "block"}
    /\ pc \in {"start", "awaitFetch", "awaitJson", "done"}
    /\ consoleErrors \in 0..1
    /\ outcome \in {"idle", "rendered", "caught", "uncaught"}

\* ================================================================== claims
\* The spec's derived tag set of a job: role, level, each language, each
\* tool, a missing field contributing no tag.
DerivedTagSet(job) ==
    (IF "role" \in job.missing THEN {} ELSE {job.role})
    \cup (IF "level" \in job.missing THEN {} ELSE {job.level})
    \cup (IF "languages" \in job.missing THEN {} ELSE Range(job.languages))
    \cup (IF "tools" \in job.missing THEN {} ELSE Range(job.tools))

Satisfies(job) == Range(activeFilters) \subseteq DerivedTagSet(job)

\* Number of cards of a job in the region / of entries of a job in JobList
\* (the company name identifies the job among Jobs).
ShownCount(job) ==
    Cardinality({i \in 1..Len(jobListingsHTML) : jobListingsHTML[i].company = job.company})
ListedCount(job) ==
    Cardinality({i \in 1..Len(jobs.items) : jobs.items[i] = job})

ShowsExactlyMatching ==
    \A job \in Jobs : ShownCount(job) = IF Satisfies(job) THEN ListedCount(job) ELSE 0

FailedLoad == response.settled /\ (response.rejected \/ ~response.ok)

\* C1: after every transition whose render ran to completion (initial render,
\* tag click, chip close, clear-all) the region shows a job of JobList iff
\* every active filter is in the job's derived tag set.
C1_VisibleIffMatches == outcome = "rendered" => ShowsExactlyMatching

C1_Witness ==
    /\ outcome = "rendered"
    /\ Len(activeFilters) = 2
    /\ Len(jobs.items) = 3
    /\ Len(jobListingsHTML) = 1

\* C2: after every transition that runs updateFilterBar, a non-empty
\* activeFilters means the bar is shown with exactly one chip per active tag,
\* each carrying the tag's value; an empty one means the bar is hidden.
BarMatches ==
    IF Len(activeFilters) > 0
    THEN /\ filterBarDisplay = "block"
         /\ Len(filterTagsHTML) = Len(activeFilters)
         /\ \A t \in Range(activeFilters) :
               Cardinality({i \in 1..Len(filterTagsHTML) :
                               /\ filterTagsHTML[i].filter = t
                               /\ filterTagsHTML[i].text = t
                               /\ "btn-close" \in filterTagsHTML[i].classList}) = 1
    ELSE filterBarDisplay = "none"

C2_FilterBarRender ==
    [][event'.type \in {"tag", "close", "clear"} => BarMatches']_vars

C2_Witness ==
    /\ event.type = "close"
    /\ event.active
    /\ activeFilters = <<>>
    /\ filterBarDisplay = "none"
    /\ Len(filterTagsHTML) = 1

\* C3: from any reachable state a clear-all click leaves activeFilters
\* empty, the region showing every job of JobList, and the filter bar hidden.
C3_ClearAll ==
    [][event'.type = "clear" =>
          /\ activeFilters' = <<>>
          /\ \A job \in Jobs : ShownCount(job)' = ListedCount(job)'
          /\ filterBarDisplay' = "none"]_vars

\* C4: a tag click whose tag is already active changes neither activeFilters
\* nor the chips and their order, the bar's visibility or the job list.
C4_AddIdempotent ==
    [][(event'.type = "tag" /\ event'.active) =>
          UNCHANGED <<activeFilters, filterTagsHTML, filterBarDisplay, jobListingsHTML>>]_vars

C4_Witness ==
    /\ event.type = "tag"
    /\ event.active
    /\ Len(activeFilters) = 2
    /\ outcome = "rendered"
    /\ Len(jobListingsHTML) > 0

\* C5: removing a tag that is not active changes neither activeFilters nor
\* the job list nor the filter bar.
C5_RemoveAbsentNoOp ==
    [][(event'.type = "close" /\ ~event'.active) =>
          UNCHANGED <<activeFilters, filterTagsHTML, filterBarDisplay, jobListingsHTML>>]_vars

C5_Witness ==
    /\ event.type = "close"
    /\ ~event.active
    /\ Len(activeFilters) = 2
    /\ outcome = "rendered"
    /\ Len(jobListingsHTML) > 0

\* C6: when the fetch fails by network error or non-success status the
\* failure is logged and swallowed: jobs stays empty, the region stays empty
\* and no handler, at load or on a later click, ends with an uncaught error.
C6_FetchFailure ==
    FailedLoad =>
        /\ consoleErrors = 1
        /\ jobs = ArrayOf(<<>>)
        /\ jobListingsHTML = <<>>
        /\ outcome # "uncaught"

C6_Witness ==
    /\ FailedLoad
    /\ ~response.rejected
    /\ response.body.valid
    /\ event.type = "tag"
    /\ Len(activeFilters) = 2

\* C7: a malformed payload (not JSON, or JSON that is not an array of Job
\* records) is handled like a load failure: jobs left empty, region empty,
\* no error from the load or from any later click.
WellFormedPayload ==
    /\ response.body.valid
    /\ response.body.value.isArray
    /\ Range(response.body.value.items) \subseteq WellFormedJobs

C7_MalformedPayload ==
    (pc = "done" /\ ~FailedLoad /\ ~WellFormedPayload) =>
        /\ consoleErrors = 1
        /\ jobs = ArrayOf(<<>>)
        /\ jobListingsHTML = <<>>
        /\ outcome # "uncaught"

\* C8: for a JobList holding a record with a missing field, filtering and
\* rendering complete without raising, the missing field yields no tag (no
\* chip is rendered for it) and the jobs are filtered and shown as usual.
HasMalformedRecord ==
    /\ jobs.isArray
    /\ \E i \in 1..Len(jobs.items) : jobs.items[i].missing # {}

CardTags(card) == {card.tools[i].tag : i \in 1..Len(card.tools)}
                  \cup {card.bottom[i].tag : i \in 1..Len(card.bottom)}

C8_MissingFieldTolerated ==
    (pc = "done" /\ HasMalformedRecord) =>
        /\ outcome \notin {"caught", "uncaught"}
        /\ ShowsExactlyMatching
        /\ \A i \in 1..Len(jobListingsHTML) : "undefined" \notin CardTags(jobListingsHTML[i])

\* C9: the cards in the region are in JobList order, whatever the filters
\* and whatever the order in which they were added.
C9_OrderPreserved ==
    \E f \in [1..Len(jobListingsHTML) -> 1..Len(jobs.items)] :
        /\ \A i, j \in 1..Len(jobListingsHTML) : i < j => f[i] < f[j]
        /\ \A i \in 1..Len(jobListingsHTML) :
              jobListingsHTML[i].company = jobs.items[f[i]].company

C9_Witness ==
    /\ Len(activeFilters) = 2
    /\ Len(jobs.items) = 3
    /\ Len(jobListingsHTML) = 2
    /\ jobListingsHTML[1].company = jobs.items[2].company
    /\ jobListingsHTML[2].company = jobs.items[3].company

\* C10: jobs is assigned only by fetchJobs, at most once, and no click
\* changes it; activeFilters starts empty and only the tag, close and
\* clear-all clicks change it.
C10_SingleWriter ==
    /\ activeFilters = <<>>
    /\ [][/\ jobs' # jobs => (pc = "awaitJson" /\ pc' = "done")
          /\ pc = "done" => (pc' = "done" /\ jobs' = jobs)
          /\ pc' # pc => activeFilters' = activeFilters
          /\ activeFilters' # activeFilters => event'.type \in {"tag", "close", "clear"}]_vars

C10_Witness ==
    /\ pc = "done"
    /\ Len(jobs.items) = 3
    /\ event.type = "clear"
    /\ outcome = "rendered"

\* C11: activeFilters is exactly the set of tags whose most recent event is
\* an add with no later remove or clear-all, and the region shows the jobs
\* matching that set; for L = [job1, job2]: add Frontend shows only job 1,
\* then add Senior shows no job, then closing Frontend shows only job 2.
C11_Scenario ==
    jobs.items = <<Job1, Job2>> =>
        /\ activeFilters = <<"Frontend">> => jobListingsHTML = <<createJobCard(Job1)>>
        /\ activeFilters = <<"Frontend", "Senior">> => jobListingsHTML = <<>>
        /\ activeFilters = <<"Senior">> => jobListingsHTML = <<createJobCard(Job2)>>

C11_SetTracksEvents ==
    [][/\ \A t \in Tags : Click(TagTarget(t)) =>
             Range(activeFilters') = Range(activeFilters) \cup {t}
       /\ \A t \in Tags : Click(CloseTarget(t)) =>
             Range(activeFilters') = Range(activeFilters) \ {t}
       /\ Click(ClearTarget) => Range(activeFilters') = {}
       /\ event'.type \in {"tag", "close", "clear"} =>
             (ShowsExactlyMatching' /\ C11_Scenario')]_vars

\* C12 as stated: after every add, remove or clear-all the chips in the
\* chip container are exactly the active tags, also when the set is empty.
ChipTags == {filterTagsHTML[i].filter : i \in 1..Len(filterTagsHTML)}

C12_ChipsEqualSet ==
    [][event'.type \in {"tag", "close", "clear"} =>
          ChipTags' = Range(activeFilters')]_vars

\* C12 as amended: after every add, remove or clear-all, a non-empty set
\* has its chips in the container, one per tag in insertion order, with the
\* bar shown; an empty set has the bar hidden and the container left as the
\* last non-empty render wrote it.
C12_ChipsWhenShown ==
    [][event'.type \in {"tag", "close", "clear"} =>
          IF activeFilters' # <<>>
          THEN /\ filterBarDisplay' = "block"
               /\ filterTagsHTML' =
                     [i \in 1..Len(activeFilters') |-> FilterChip(activeFilters'[i])]
          ELSE /\ filterBarDisplay' = "none"
               /\ filterTagsHTML' = filterTagsHTML]_vars

C12_Witness ==
    /\ event.type = "clear"
    /\ activeFilters = <<>>
    /\ filterBarDisplay = "none"
    /\ Len(filterTagsHTML) = 2

\* ------------------------------------------------- clicks through the page
\* A user can click only what the page shows: a tag chip of a card in
\* #job-listings, the close button of a chip in the displayed filter bar,
\* the clear-all control, or any other element.
UITagClick ==
    \E i \in 1..Len(jobListingsHTML) :
        \E t \in CardTags(jobListingsHTML[i]) : Click(TagTarget(t))

UICloseClick ==
    /\ filterBarDisplay = "block"
    /\ \E i \in 1..Len(filterTagsHTML) : Click(CloseTarget(filterTagsHTML[i].filter))

NextUI ==
    \/ DOMContentLoaded
    \/ FetchSettles
    \/ JsonSettles
    \/ UITagClick
    \/ UICloseClick
    \/ ClearClick
    \/ OtherClick

SpecUI == Init /\ [][NextUI]_vars

\* The fetch delivered a JSON array.
LoadedArray ==
    /\ response.settled /\ ~FailedLoad
    /\ response.body.valid
    /\ response.body.value.isArray

AllCards == [i \in 1..Len(jobs.items) |-> createJobCard(jobs.items[i])]

\* C13: with clicks interleaved with the pending fetch, activeFilters is
\* still empty when the fetch completes, no click before completion raises,
\* and on successful completion the region shows all jobs of JobList.
C13_ClicksWhilePending ==
    [][/\ (pc # "done" /\ event'.type \in {"tag", "close", "clear", "other"}) =>
             (outcome' # "uncaught" /\ activeFilters' = <<>>)
       /\ (pc # "done" /\ pc' = "done") => activeFilters' = <<>>
       /\ (pc = "awaitJson" /\ pc' = "done" /\ LoadedArray') =>
             jobListingsHTML' = AllCards']_vars

\* C14: the fetch runs once and resolves once, with no retry: on success
\* jobs is the parsed sequence and the initial render is performed (the
\* region shows the matching jobs of the loaded list); on failure no later
\* event populates jobs or starts another fetch.
FetchSteps == {<<"start", "awaitFetch">>, <<"awaitFetch", "awaitJson">>,
               <<"awaitFetch", "done">>, <<"awaitJson", "done">>}

C14_FetchOnce ==
    [][/\ pc' # pc => <<pc, pc'>> \in FetchSteps
       /\ (pc # "done" /\ pc' = "done" /\ LoadedArray') =>
             (jobs' = response'.body.value /\ ShowsExactlyMatching')
       /\ (pc # "done" /\ pc' = "done" /\ ~LoadedArray') =>
             (consoleErrors' = 1 /\ jobListingsHTML' = <<>>)
       /\ pc = "done" => (pc' = "done" /\ jobs' = jobs /\ response' = response)]_vars

\* C15: a click on a tag chip performs only add(its tag), a click on a chip
\* close button performs only remove(its tag), a click on any other element
\* changes neither activeFilters nor a region; a routed click rewrites the
\* filter bar and runs the job-list render before the next event.
OrderedAdd(S, x) == IF \E i \in 1..Len(S) : S[i] = x THEN S ELSE S \o <<x>>
OrderedRemove(S, x) ==
    LET keep == {i \in 1..Len(S) : S[i] # x}
        idx(k) == CHOOSE i \in keep : Cardinality({j \in keep : j < i}) = k - 1
    IN [k \in 1..Cardinality(keep) |-> S[idx(k)]]

C15_Dispatch ==
    [][/\ \A t \in Tags : Click(TagTarget(t)) =>
             /\ activeFilters' = OrderedAdd(activeFilters, t)
             /\ BarMatches'
             /\ outcome' \in {"rendered", "uncaught"}
       /\ \A t \in Tags : Click(CloseTarget(t)) =>
             /\ activeFilters' = OrderedRemove(activeFilters, t)
             /\ BarMatches'
             /\ outcome' \in {"rendered", "uncaught"}
       /\ Click(OtherTarget) =>
             /\ outcome' = "idle"
             /\ UNCHANGED <<activeFilters, jobs, jobListingsHTML,
                            filterTagsHTML, filterBarDisplay>>]_vars

C15_Witness ==
    /\ event.type = "other"
    /\ outcome = "idle"
    /\ Len(activeFilters) = 2
    /\ Len(jobListingsHTML) = 1

\* C16: when tag clicks come only from chips of rendered cards and close
\* clicks only from chips of the displayed bar, then for a non-empty,
\* well-formed JobList the region is never empty after a successful load:
\* activeFilters is always within the tag set of at least one job.
WellFormedLoaded ==
    /\ pc = "done"
    /\ LoadedArray
    /\ jobs.items # <<>>
    /\ Range(jobs.items) \subseteq WellFormedJobs

C16_NeverEmpty ==
    WellFormedLoaded =>
        /\ jobListingsHTML # <<>>
        /\ \E i \in 1..Len(jobs.items) :
              Range(activeFilters) \subseteq DerivedTagSet(jobs.items[i])

C16_Witness ==
    /\ WellFormedLoaded
    /\ event.type = "tag"
    /\ Len(jobs.items) = 3
    /\ Len(activeFilters) = 3
    /\ Len(jobListingsHTML) = 1

\* a is a subsequence of b.
IsSubsequence(a, b) ==
    \E f \in [1..Len(a) -> 1..Len(b)] :
        /\ \A i, j \in 1..Len(a) : i < j => f[i] < f[j]
        /\ \A i \in 1..Len(a) : a[i] = b[f[i]]

\* C17: adding a tag yields a visible sequence that is a subsequence of the
\* previous one; removing a tag or clearing yields one of which the
\* previous sequence is a subsequence.
C17_Monotone ==
    [][/\ event'.type = "tag" => IsSubsequence(jobListingsHTML', jobListingsHTML)
       /\ event'.type \in {"close", "clear"} =>
             IsSubsequence(jobListingsHTML, jobListingsHTML')]_vars

C17_Witness ==
    /\ event.type = "tag"
    /\ ~event.active
    /\ Len(activeFilters) = 2
    /\ Len(jobs.items) = 3
    /\ Len(jobListingsHTML) = 2

\* C18: for a tag t not in activeFilters, a tag click on t followed by a
\* close click on t restores activeFilters, the job list, the bar's
\* visibility and the displayed chips in their order.
DisplayedChips(s) == IF s.filterBarDisplay = "block" THEN s.filterTagsHTML ELSE <<>>

AddThenRemove(t) ==
    dispatchClick([dispatchClick(Page, TagTarget(t)) EXCEPT !.threw = FALSE],
                  CloseTarget(t))

C18_RoundTrip ==
    \A t \in Tags \ Range(activeFilters) :
        LET s == AddThenRemove(t)
        IN /\ s.activeFilters = activeFilters
           /\ s.jobListingsHTML = jobListingsHTML
           /\ s.filterBarDisplay = filterBarDisplay
           /\ DisplayedChips(s) = DisplayedChips(Page)

C18_Witness ==
    /\ event.type = "close"
    /\ event.active
    /\ outcome = "rendered"
    /\ Len(activeFilters) = 2
    /\ Len(jobListingsHTML) = 2
    /\ \E t \in Tags \ Range(activeFilters) :
          dispatchClick(Page, TagTarget(t)).jobListingsHTML # jobListingsHTML
====
